---- MODULE Spec2Model ----
(***************************************************************************)
(* Model of the SolanaChangeNumber on-chain program                        *)
(* (program-rust/src/lib.rs, program-rust/src/instruction.rs).             *)
(*                                                                         *)
(* One account holds a borsh-serialised GreetingAccount { counter: u32 }.  *)
(* process_instruction unpacks the instruction bytes, takes the first      *)
(* account, checks its owner, deserialises the counter, applies the        *)
(* instruction and serialises the counter back into the account data.      *)
(*                                                                         *)
(* A u32 is kept as two 16-bit limbs [lo, hi] (value = lo + 65536 * hi),   *)
(* because the model checker's integers are 32-bit signed and cannot hold  *)
(* 2^32 - 1.  All arithmetic on the limbs is arithmetic modulo 2^32.       *)
(***************************************************************************)
EXTENDS Integers, Sequences, FiniteSets, TLC

VARIABLES
    data,              \* account.data: the bytes of the account's region
    old_data,          \* account.data as it was before the last invocation
    instruction_data,  \* the instruction_data argument of the last invocation
    accounts,          \* the accounts argument of the last invocation (owners)
    instructions,      \* what unpack returned in the last invocation
    result,            \* the last invocation's outcome
    overflow_checks,   \* build profile: TRUE = overflow checks on (debug)
    calls,             \* number of invocations so far
    pc,                \* "idle": between invocations; "returned": one just ran
    folded             \* the counter obtained by folding the successful commands

vars == <<data, old_data, instruction_data, accounts, instructions, result,
          overflow_checks, calls, pc, folded>>

(* ---------------------------- bounds ----------------------------------- *)
MaxCalls == 3
MaxLen == 6
MaxRegion == 5

(* --------------------------- input sets -------------------------------- *)
\* the value of one u8 is below ByteMod
ByteMod == 256
\* the value of one 16-bit limb of a u32 is below Limb
Limb == ByteMod * ByteMod

TagBytes == {0, 1, 2, 3}
PayloadBytes == {0, 255}
RegionLens == 3..MaxRegion

RECURSIVE SeqsOf(_, _)
SeqsOf(S, n) ==
    IF n = 0 THEN {<<>>}
    ELSE LET shorter == SeqsOf(S, n - 1)
         IN  shorter \cup {Append(s, b) : s \in {t \in shorter : Len(t) = n - 1}, b \in S}

\* the buffers the tests and the documented scenarios use
NamedBuffers == {<<2, 100, 0, 0, 0>>, <<1, 100, 0, 0, 0>>, <<2, 1, 2, 3>>}

InstructionBuffers ==
    {<<>>} \cup NamedBuffers
    \cup {<<t>> \o p : t \in TagBytes, p \in SeqsOf(PayloadBytes, MaxLen - 1)}

Zeros(n) == [i \in 1..n |-> 0]

\* Pubkey values: the program's own id and some other key
ProgramId == "program"
Pubkeys == {"program", "other"}
\* accounts: an empty slice, or one account given by its owner
AccountSlices == {<<>>} \cup {<<k>> : k \in Pubkeys}

(* ------------------------------ u32 ------------------------------------ *)
U32(lo, hi) == [lo |-> lo, hi |-> hi]
U32Zero == U32(0, 0)
U32Max == U32(Limb - 1, Limb - 1)

\* u32::from_le_bytes: the byte at the lowest offset is the least significant
from_le_bytes_be(b) ==
    U32(b[4] + ByteMod * b[3], b[2] + ByteMod * b[1])
from_le_bytes(b) ==
    U32(b[1] + ByteMod * b[2], b[3] + ByteMod * b[4])

\* u32::to_le_bytes, as used by the derived BorshSerialize
to_le_bytes_be(c) ==
    <<c.hi \div ByteMod, c.hi % ByteMod, c.lo \div ByteMod, c.lo % ByteMod>>
to_le_bytes(c) ==
    <<c.lo % ByteMod, c.lo \div ByteMod, c.hi % ByteMod, c.hi \div ByteMod>>

\* c + 1 and c - 1 modulo 2^32
wrapping_add_1(c) ==
    IF c.lo + 1 < Limb THEN U32(c.lo + 1, c.hi)
    ELSE U32(0, (c.hi + 1) % Limb)
wrapping_sub_1(c) ==
    IF c.lo > 0 THEN U32(c.lo - 1, c.hi)
    ELSE U32(Limb - 1, (c.hi + Limb - 1) % Limb)

(* ------------------------ HelloInstruction ----------------------------- *)
Increment == [tag |-> "Increment"]
Decrement == [tag |-> "Decrement"]
Set(x) == [tag |-> "Set", value |-> x]

Ok(v) == [ok |-> TRUE, value |-> v]
Err(e) == [ok |-> FALSE, err |-> e]

\* HelloInstruction::unpack
unpack_strict(input) ==
    IF input = <<>> THEN Err("InvalidInstructionData")
    ELSE LET tag == Head(input)
             rest == Tail(input)
         IN  CASE tag = 0 -> IF rest = <<>> THEN Ok(Increment)
                             ELSE Err("InvalidInstructionData")
               [] tag = 1 -> IF rest = <<>> THEN Ok(Decrement)
                             ELSE Err("InvalidInstructionData")
               [] tag = 2 -> IF Len(rest) # 4 THEN Err("InvalidInstructionData")
                             ELSE Ok(Set(from_le_bytes(SubSeq(rest, 1, 4))))
               [] OTHER -> Err("InvalidInstructionData")
unpack_short_ok(input) ==
    IF input = <<>> THEN Err("InvalidInstructionData")
    ELSE LET tag == Head(input)
             rest == Tail(input)
         IN  CASE tag = 0 -> Ok(Increment)
               [] tag = 1 -> Ok(Decrement)
               [] tag = 2 -> IF Len(rest) < 4 THEN Err("InvalidInstructionData")
                             ELSE Ok(Set(from_le_bytes(SubSeq(rest, 1, 4))))
               [] OTHER -> Err("InvalidInstructionData")
unpack_default_inc(input) ==
    IF input = <<>> THEN Err("InvalidInstructionData")
    ELSE LET tag == Head(input)
             rest == Tail(input)
         IN  CASE tag = 0 -> Ok(Increment)
               [] tag = 1 -> Ok(Decrement)
               [] tag = 2 -> IF Len(rest) # 4 THEN Err("InvalidInstructionData")
                             ELSE Ok(Set(from_le_bytes(SubSeq(rest, 1, 4))))
               [] OTHER -> Ok(Increment)
unpack(input) ==
    IF input = <<>> THEN Err("InvalidInstructionData")
    ELSE LET tag == Head(input)
             rest == Tail(input)
         IN  CASE tag = 0 -> Ok(Increment)
               [] tag = 1 -> Ok(Decrement)
               [] tag = 2 -> IF Len(rest) # 4 THEN Err("InvalidInstructionData")
                             ELSE Ok(Set(from_le_bytes(SubSeq(rest, 1, 4))))
               [] OTHER -> Err("InvalidInstructionData")

(* ------------------------- process_instruction ------------------------- *)
\* next_account_info: the first account of the slice, or NotEnoughAccountKeys
next_account_info(accs) ==
    IF accs = <<>> THEN Err("NotEnoughAccountKeys") ELSE Ok(Head(accs))

\* account.owner != program_id
owner_mismatch_never(owner, program_id) == FALSE
owner_mismatch(owner, program_id) == owner # program_id

\* GreetingAccount::try_from_slice: reads 4 bytes, fails if fewer are there
\* or if any byte is left unread
try_from_slice_prefix(region) ==
    IF Len(region) < 4 THEN Err("BorshIoError")
    ELSE Ok(from_le_bytes(SubSeq(region, 1, 4)))
try_from_slice(region) ==
    IF Len(region) < 4 THEN Err("BorshIoError")
    ELSE IF Len(region) > 4 THEN Err("BorshIoError")
    ELSE Ok(from_le_bytes(SubSeq(region, 1, 4)))

\* the match on the instruction: += 1, -= 1, = x.  With overflow checks the
\* arithmetic panics when it leaves the u32 range, without them it wraps.
apply(instruction, counter, checks) ==
    CASE instruction.tag = "Increment" ->
            IF checks /\ counter = U32Max THEN Err("Panic")
            ELSE Ok(wrapping_add_1(counter))
      [] instruction.tag = "Decrement" ->
            IF checks /\ counter = U32Zero THEN Err("Panic")
            ELSE Ok(wrapping_sub_1(counter))
      [] instruction.tag = "Set" -> Ok(instruction.value)

\* greeting_account.serialize(&mut &mut data[..]): write_all of the 4 bytes
\* into the slice; a slice shorter than 4 takes what fits and reports an error
serialize(counter, region) ==
    LET bytes == to_le_bytes(counter)
        n == Len(region)
    IN  IF n >= 4
        THEN [ok |-> TRUE, region |-> bytes \o SubSeq(region, 5, n)]
        ELSE [ok |-> FALSE, err |-> "BorshIoError", region |-> SubSeq(bytes, 1, n)]

\* the outcome and the account data after one call
run_write_first(program_id, accs, input, region, checks) ==
    LET instr == unpack(input)
        account == next_account_info(accs)
        greeting == try_from_slice(region)
        applied == apply(instr.value, greeting.value, checks)
        written == serialize(applied.value, region)
    IN  IF ~instr.ok THEN [result |-> instr.err, region |-> region]
        ELSE IF ~account.ok THEN [result |-> account.err, region |-> region]
        ELSE IF ~greeting.ok THEN [result |-> greeting.err, region |-> region]
        ELSE IF ~applied.ok THEN [result |-> applied.err, region |-> region]
        ELSE IF owner_mismatch(account.value, program_id)
             THEN [result |-> "IncorrectProgramId", region |-> written.region]
        ELSE [result |-> "Ok", region |-> written.region]
run(program_id, accs, input, region, checks) ==
    LET instr == unpack(input)
        account == next_account_info(accs)
        greeting == try_from_slice(region)
        applied == apply(instr.value, greeting.value, checks)
        written == serialize(applied.value, region)
    IN  IF ~instr.ok THEN [result |-> instr.err, region |-> region]
        ELSE IF ~account.ok THEN [result |-> account.err, region |-> region]
        ELSE IF owner_mismatch(account.value, program_id)
             THEN [result |-> "IncorrectProgramId", region |-> region]
        ELSE IF ~greeting.ok THEN [result |-> greeting.err, region |-> region]
        ELSE IF ~applied.ok THEN [result |-> applied.err, region |-> region]
        ELSE IF ~written.ok THEN [result |-> written.err, region |-> written.region]
        ELSE [result |-> "Ok", region |-> written.region]

\* the counter the sequence of successful commands gives, computed on the
\* value and never through the account's bytes
fold(acc, input, outcome, checks) ==
    IF outcome = "Ok" THEN apply(unpack(input).value, acc, checks).value ELSE acc

(* ------------------------------ machine -------------------------------- *)
Init ==
    /\ data \in {Zeros(n) : n \in RegionLens}
    /\ old_data = data
    /\ instruction_data = <<>>
    /\ accounts = <<>>
    /\ instructions = Err("None")
    /\ result = "None"
    /\ overflow_checks \in BOOLEAN
    /\ calls = 0
    /\ pc = "idle"
    /\ folded = U32Zero

\* one invocation of the entrypoint, run to completion
process_instruction(program_id) ==
    /\ pc = "idle"
    /\ calls < MaxCalls
    /\ \E accs \in AccountSlices, input \in InstructionBuffers :
          LET out == run(program_id, accs, input, data, overflow_checks)
          IN  /\ data' = out.region
              /\ result' = out.result
              /\ folded' = fold(folded, input, out.result, overflow_checks)
              /\ instruction_data' = input
              /\ instructions' = unpack(input)
              /\ accounts' = accs
    /\ old_data' = data
    /\ calls' = calls + 1
    /\ pc' = "returned"
    /\ UNCHANGED overflow_checks

\* the entrypoint has returned: the arguments and the result of the call are
\* gone, only the account data persists until the next invocation
entrypoint_return ==
    /\ pc = "returned"
    /\ pc' = "idle"
    /\ old_data' = data
    /\ instruction_data' = <<>>
    /\ accounts' = <<>>
    /\ instructions' = Err("None")
    /\ result' = "None"
    /\ UNCHANGED <<data, overflow_checks, calls, folded>>

Next ==
    \/ process_instruction(ProgramId)
    \/ entrypoint_return

Spec == Init /\ [][Next]_vars

(* ------------------------------ properties ----------------------------- *)
\* an invocation has just run; its arguments and outcome are on record
Returned == pc = "returned"
\* the invocation was given an account owned by the program
Owned == accounts # <<>> /\ Head(accounts) = ProgramId
\* the invocation was given an account owned by some other key
Foreign == accounts # <<>> /\ Head(accounts) # ProgramId
\* every way an invocation can fail
Failures == {"InvalidInstructionData", "NotEnoughAccountKeys", "IncorrectProgramId",
             "BorshIoError", "Panic"}
MaxBytes == [i \in 1..4 |-> ByteMod - 1]

\* C1: a Decrement of a persisted counter 0 does not succeed: it fails, the
\* counter does not wrap to 2^32-1 and the region still encodes 0.
C1_DecrementAtZeroFails ==
    (Returned /\ Owned /\ instructions = Ok(Decrement) /\ old_data = Zeros(4))
        => (result # "Ok" /\ data = old_data)

\* C2: an Increment of a counter c < 2^32-1 succeeds and persists c+1; an
\* Increment of c = 2^32-1 fails and the counter never wraps to 0.
C2_IncrementChecked ==
    (Returned /\ Owned /\ instructions = Ok(Increment) /\ Len(old_data) = 4)
        => IF old_data = MaxBytes
           THEN result # "Ok" /\ data = old_data
           ELSE /\ result = "Ok"
                /\ \E i \in 1..4 :
                     /\ \A j \in 1..(i - 1) : old_data[j] = ByteMod - 1 /\ data[j] = 0
                     /\ data[i] = old_data[i] + 1
                     /\ \A j \in (i + 1)..4 : data[j] = old_data[j]

\* C3 (as claimed): whenever the account's owner differs from the program id
\* the result is the authorization failure, for every instruction buffer, and
\* the region is unchanged.
C3_OwnerCheckedFirst ==
    (Returned /\ Foreign) => (result = "IncorrectProgramId" /\ data = old_data)

\* C3 (amended): whenever the account's owner differs from the program id the
\* invocation fails and the region is unchanged; the result is the
\* authorization failure when the buffer decodes, and the decode failure
\* otherwise, because the buffer is decoded before the owner is compared.
C3_OwnerCheckedAfterDecode ==
    (Returned /\ Foreign)
        => /\ data = old_data
           /\ result = IF instructions.ok THEN "IncorrectProgramId"
                       ELSE "InvalidInstructionData"
C3_Witness ==
    /\ Returned /\ Foreign
    /\ instruction_data = <<2, 100, 0, 0, 0>>
    /\ Len(data) = 4
    /\ result = "IncorrectProgramId"

\* C4: no partial application: an invocation either succeeds, having decoded
\* the buffer and rewritten the 4-byte region with the new counter, or it
\* returns one of the failures and the region is byte for byte what it was.
C4_NoPartialApplication ==
    Returned =>
        \/ /\ result = "Ok"
           /\ instructions.ok /\ Owned
           /\ Len(old_data) = 4 /\ Len(data) = 4
           /\ from_le_bytes(data) = folded
        \/ /\ result \in Failures
           /\ data = old_data
C4_Witness ==
    /\ Returned /\ Owned
    /\ result = "Ok"
    /\ data # old_data

\* C5: a buffer whose first byte is 2 decodes iff exactly 4 bytes follow the
\* tag; it then decodes to Set(v), v the little-endian value of those bytes,
\* and otherwise fails with the invalid-instruction-data error.
C5_SetDecodesIffFourBytes ==
    (Returned /\ instruction_data # <<>> /\ Head(instruction_data) = 2)
        => IF Len(instruction_data) = 5
           THEN /\ instructions.ok
                /\ instructions.value.tag = "Set"
                /\ instructions.value.value.lo % ByteMod = instruction_data[2]
                /\ instructions.value.value.lo \div ByteMod = instruction_data[3]
                /\ instructions.value.value.hi % ByteMod = instruction_data[4]
                /\ instructions.value.value.hi \div ByteMod = instruction_data[5]
           ELSE /\ ~instructions.ok
                /\ instructions.err = "InvalidInstructionData"
                /\ result = "InvalidInstructionData"
C5_Witness ==
    /\ Returned
    /\ instruction_data = <<2, 0, 255, 0, 255>>
    /\ instructions = Ok(Set(U32(255 * 256, 255 * 256)))

\* C6: a buffer whose first byte is 0 (1) decodes to Increment (Decrement)
\* whatever bytes follow the tag.
C6_TrailingBytesIgnored ==
    (Returned /\ instruction_data # <<>> /\ Head(instruction_data) \in {0, 1})
        => /\ instructions = Ok(IF Head(instruction_data) = 0 THEN Increment
                                ELSE Decrement)
           /\ result # "InvalidInstructionData"
C6_Witness ==
    /\ Returned /\ Owned
    /\ instruction_data = <<0, 0, 0, 0, 0>>
    /\ old_data = <<100, 0, 0, 0>>
    /\ data = <<101, 0, 0, 0>>
    /\ result = "Ok"

\* C7 (as claimed): the failure of the empty buffer is of a kind distinct
\* from the failure of every non-empty buffer that fails to decode (unknown
\* tag, malformed payload).
C7_DistinctDecodeErrors ==
    (Returned /\ instruction_data = <<>>)
        => /\ ~instructions.ok
           /\ \A b \in InstructionBuffers :
                (b # <<>> /\ ~unpack(b).ok) => unpack(b).err # instructions.err

\* C7 (amended): the empty buffer and every non-empty buffer whose first byte
\* is outside {0,1,2} fail to decode, whatever the trailing bytes, both with
\* the one kind InvalidInstructionData, which a malformed tag-2 payload yields
\* too.
C7_DecodeErrorsOneKind ==
    (Returned /\ (instruction_data = <<>> \/ Head(instruction_data) \notin {0, 1, 2}))
        => /\ ~instructions.ok
           /\ instructions.err = "InvalidInstructionData"
           /\ result = "InvalidInstructionData"
           /\ data = old_data
C7_Witness ==
    /\ Returned /\ Owned
    /\ instruction_data = <<3, 255>>
    /\ Len(data) = 4
    /\ result = "InvalidInstructionData"

\* C8: on a 4-byte region owned by the program, the buffer [2] followed by
\* the little-endian bytes of v always succeeds and leaves the persisted
\* counter equal to v, whatever the counter was.
C8_SetAlwaysSucceeds ==
    (/\ Returned /\ Owned
     /\ Len(old_data) = 4
     /\ Len(instruction_data) = 5
     /\ Head(instruction_data) = 2)
        => /\ result = "Ok"
           /\ data = Tail(instruction_data)
C8_Witness ==
    /\ Returned /\ Owned
    /\ instruction_data = <<2, 100, 0, 0, 0>>
    /\ old_data = <<255, 255, 255, 255>>
    /\ data = <<100, 0, 0, 0>>
    /\ result = "Ok"

\* C9: a region whose length is not 4 (shorter or longer) makes the
\* invocation fail and stay without effect for every command, and the failure
\* is the deserialization failure once the command has been decoded and the
\* owner accepted.
C9_WrongLengthRejected ==
    (Returned /\ Len(old_data) # 4)
        => /\ result # "Ok"
           /\ data = old_data
           /\ (instructions.ok /\ Owned) => result = "BorshIoError"
C9_Witness ==
    /\ Returned /\ Owned
    /\ Len(old_data) = 5
    /\ instructions = Ok(Increment)
    /\ result = "BorshIoError"

\* C10: starting from the zero-initialized 4-byte region, the region always
\* holds the 4-byte little-endian encoding of the counter obtained by folding
\* the commands of the successful invocations; failed ones contribute nothing.
C10_RegionEncodesFold ==
    Len(data) = 4
        => /\ \A i \in 1..4 : data[i] \in 0..(ByteMod - 1)
           /\ data[1] = folded.lo % ByteMod
           /\ data[2] = folded.lo \div ByteMod
           /\ data[3] = folded.hi % ByteMod
           /\ data[4] = folded.hi \div ByteMod
           /\ folded.lo \in 0..(Limb - 1) /\ folded.hi \in 0..(Limb - 1)
           /\ (Returned /\ result # "Ok") => data = old_data
C10_Witness ==
    /\ Returned
    /\ calls = 2
    /\ instruction_data = <<0>>
    /\ old_data = <<100, 0, 0, 0>>
    /\ data = <<101, 0, 0, 0>>
    /\ folded = U32(101, 0)
    /\ result = "Ok"
====
